---- MODULE Spec2Model ----
(***************************************************************************)
(* Model of src/vat_tool.py: the date normaliser (convert_date), the       *)
(* filter and aggregator (process_transactions), the reconciliation        *)
(* engine (check_disclosures) and the "Process and Generate Exports"       *)
(* handler of the Streamlit script.                                        *)
(*                                                                         *)
(* Representation.                                                         *)
(*   Timestamps are records [nat, day, sec, ns]: days since 1970-01-01,    *)
(*   second of the day, nanosecond of the second; nat marks pd.NaT.        *)
(*   Numbers that exceed 32 bits are records [neg, hi, lo] standing for    *)
(*   +/-(hi * 10^9 + lo) with 0 <= lo < 10^9.                              *)
(*   Money is an integer number of cents; NaN is a reserved value.         *)
(***************************************************************************)
EXTENDS Integers, Sequences, FiniteSets, TLC

VARIABLES
    pc,                 \* position of the modelled call or handler
    value,              \* convert_date: the raw cell handed in
    date,               \* convert_date: the value returned
    df0,                \* process_transactions: the table as it was first handed in
    df,                 \* process_transactions: the caller's table (mutated in place)
    args,               \* process_transactions: the keyword arguments
    now,                \* the ambient wall clock read by datetime.now()
    ret,                \* process_transactions: outcome of the latest call
    ret_prev,           \* process_transactions: outcome of the call before it
    recon_in,           \* check_disclosures: the three arguments
    recon_out,          \* check_disclosures: outcome of the call
    ui                  \* the button handler: uploads, widgets, delivered output

vars == <<pc, value, date, df0, df, args, now, ret, ret_prev, recon_in, recon_out, ui>>

(***************************************************************************)
(* Timestamps and the proleptic Gregorian calendar (pandas Timestamp).     *)
(***************************************************************************)
NaT == [nat |-> TRUE, day |-> 0, sec |-> 0, ns |-> 0]

Timestamp(d, s, n) == [nat |-> FALSE, day |-> d, sec |-> s, ns |-> n]

notna(t) == ~t.nat

\* t1 < t2 on valid timestamps
TsLess(t1, t2) ==
    \/ t1.day < t2.day
    \/ t1.day = t2.day /\ t1.sec < t2.sec
    \/ t1.day = t2.day /\ t1.sec = t2.sec /\ t1.ns < t2.ns

TsLeq(t1, t2) == ~TsLess(t2, t1)

\* days since 1970-01-01 of the civil date y-m-d
DaysFromCivil(y, m, d) ==
    LET yy  == IF m <= 2 THEN y - 1 ELSE y
        era == yy \div 400
        yoe == yy - era * 400
        mp  == (m + 9) % 12
        doy == (153 * mp + 2) \div 5 + d - 1
        doe == yoe * 365 + yoe \div 4 - yoe \div 100 + doy
    IN  era * 146097 + doe - 719468

\* [y, m, d] of a day number
CivilFromDays(z) ==
    LET zz  == z + 719468
        era == zz \div 146097
        doe == zz - era * 146097
        yoe == (doe - doe \div 1460 + doe \div 36524 - doe \div 146096) \div 365
        doy == doe - (365 * yoe + yoe \div 4 - yoe \div 100)
        mp  == (5 * doy + 2) \div 153
        d   == doy - (153 * mp + 2) \div 5 + 1
        m   == IF mp < 10 THEN mp + 3 ELSE mp - 9
        y   == yoe + era * 400
    IN  [y |-> IF m <= 2 THEN y + 1 ELSE y, m |-> m, d |-> d]

year(t) == CivilFromDays(t.day).y

month(t) == CivilFromDays(t.day).m

(***************************************************************************)
(* Wide numbers: [neg, hi, lo] is +/-(hi * 10^9 + lo).                     *)
(***************************************************************************)
Num(neg, hi, lo) == [neg |-> neg, hi |-> hi, lo |-> lo]

IsZero(n) == n.hi = 0 /\ n.lo = 0

\* n > hi0 * 10^9 + lo0  (the bound is non-negative)
NumGt(n, hi0, lo0) ==
    /\ ~n.neg
    /\ \/ n.hi > hi0
       \/ n.hi = hi0 /\ n.lo > lo0

\* n < hi0 * 10^9 + lo0  (the bound is non-negative)
NumLt(n, hi0, lo0) ==
    \/ n.neg /\ ~IsZero(n)
    \/ n.hi < hi0
    \/ n.hi = hi0 /\ n.lo < lo0

(***************************************************************************)
(* pandas conversions used by convert_date.                                *)
(*                                                                         *)
(* A raw cell is one of                                                    *)
(*   [kind |-> "ts", ts]          a datetime value (or NaT) already        *)
(*   [kind |-> "datetext", y,m,d] text that the date parser accepts        *)
(*   [kind |-> "junk"]            text that is neither a date nor a number *)
(*   [kind |-> "numtext", n]      text the date parser rejects and the     *)
(*                                number parser accepts                    *)
(*   [kind |-> "num", n]          an int/float cell                        *)
(*   [kind |-> "nan"]             an empty cell (float NaN)                *)
(***************************************************************************)

\* pd.to_datetime(n) with the default unit: n nanoseconds after the epoch
FromEpochNs(n) ==
    LET secs == IF ~n.neg THEN n.hi
                ELSE IF n.lo = 0 THEN 0 - n.hi ELSE 0 - n.hi - 1
        frac == IF ~n.neg \/ n.lo = 0 THEN n.lo ELSE 1000000000 - n.lo
    IN  Timestamp(secs \div 86400, secs % 86400, frac)

\* pd.to_datetime(n, unit='s') for n > 0; past Timestamp.max it raises
\* OutOfBoundsDatetime
EpochSecondsInBounds(n) == ~NumGt(n, 9, 223372036)

FromEpochSeconds(n) ==
    LET rest == n.hi * 6400 + n.lo
    IN  Timestamp(n.hi * 11574 + rest \div 86400, rest % 86400, 0)

\* pd.to_datetime('1899-12-30') + pd.to_timedelta(n, unit='D'), n a whole number
FromDaySerial(n) == Timestamp(DaysFromCivil(1899, 12, 30) + n.lo, 0, 0)

\* pd.to_datetime(value, errors='coerce')
to_datetime(v) ==
    CASE v.kind = "ts"       -> v.ts
      [] v.kind = "datetext" -> Timestamp(DaysFromCivil(v.y, v.m, v.d), 0, 0)
      [] v.kind = "num"      -> FromEpochNs(v.n)
      [] OTHER               -> NaT

\* pd.to_numeric(value, errors='coerce'): TRUE when the result is NaN
to_numeric_isna(v) == v.kind \notin {"num", "numtext"}

\* the numeric branches of convert_date, lines 15-22; an exception raised by
\* the conversion is swallowed by the bare except and gives NaT
NumericBranch(n) ==
    IF NumGt(n, 0, 0) /\ NumLt(n, 0, 100000)
    THEN FromDaySerial(n)
    ELSE IF NumGt(n, 1, 0) /\ NumLt(n, 1000000, 0)
    THEN IF EpochSecondsInBounds(n) THEN FromEpochSeconds(n) ELSE NaT
    ELSE IF NumGt(n, 1000000, 0)
    THEN FromEpochNs(n)
    ELSE NaT

convert_date(v) ==
    LET d == to_datetime(v)
    IN  IF notna(d) THEN d
        ELSE IF to_numeric_isna(v) THEN NaT
        ELSE NumericBranch(v.n)

(***************************************************************************)
(* Money: integer cents; NaN is the float NaN of a blank or non-numeric    *)
(* cell and of an unmatched row of a left/outer merge.                     *)
(***************************************************************************)
NaN == -2000000000

isna(x) == x = NaN

fillna0(x) == IF isna(x) THEN 0 ELSE x

\* float subtraction: NaN propagates
Minus(a, b) == IF isna(a) \/ isna(b) THEN NaN ELSE a - b

\* Series.round(0): to whole euros, halves to the even neighbour; NaN stays NaN
round0(x) ==
    IF isna(x) THEN NaN
    ELSE LET q == x \div 100
             r == x % 100
         IN  IF r < 50 THEN q * 100
             ELSE IF r > 50 THEN (q + 1) * 100
             ELSE IF q % 2 = 0 THEN q * 100 ELSE (q + 1) * 100

(***************************************************************************)
(* Sequence helpers (DataFrame row selection and column aggregation).      *)
(***************************************************************************)
Range(s) == {s[i] : i \in DOMAIN s}

\* Series.sum(): NaN cells are skipped
RECURSIVE SumCol(_, _)
SumCol(s, col) ==
    IF s = <<>> THEN 0
    ELSE fillna0(Head(s)[col]) + SumCol(Tail(s), col)

\* (x == 'Yes').sum()
RECURSIVE CountYes(_, _)
CountYes(s, col) ==
    IF s = <<>> THEN 0
    ELSE (IF Head(s)[col] = "Yes" THEN 1 ELSE 0) + CountYes(Tail(s), col)

(***************************************************************************)
(* VAT periods.  A key is [freq, y, n]: the period frequency, the year and *)
(* the month (or quarter) that starts it.  A label is the text written to  *)
(* the summary, kept as [text, y, n, ey, en].                              *)
(***************************************************************************)
\* freq_map.get(vat_frequency, '2M'), line 48-51
FreqOf(vat_frequency) ==
    IF vat_frequency \in {"M", "2M", "Q", "6M", "Y"} THEN vat_frequency ELSE "2M"

\* lines 43-52: the 'VAT Period' cell of a row.  Series.dt.to_period(freq) with
\* a multiple of months gives the period that starts in the row's own month.
VatPeriod(t, vat_frequency) ==
    IF vat_frequency = "4M"
    THEN [freq |-> "4M", y |-> year(t), n |-> ((month(t) - 1) \div 4) * 4 + 1]
    ELSE LET freq == FreqOf(vat_frequency)
         IN  CASE freq = "Q" -> [freq |-> freq, y |-> year(t), n |-> (month(t) - 1) \div 3 + 1]
               [] freq = "Y" -> [freq |-> freq, y |-> year(t), n |-> 1]
               [] OTHER      -> [freq |-> freq, y |-> year(t), n |-> month(t)]

\* lines 77-87: format_4m for the custom grouping, str(Period) otherwise
FormatPeriod(k) ==
    IF k.freq = "4M"
    THEN [text |-> "YYYY-MM to YYYY-MM", y |-> k.y, n |-> k.n,
          ey |-> k.y + (k.n + 2) \div 12, en |-> ((k.n + 2) % 12) + 1]
    ELSE CASE k.freq = "Q" -> [text |-> "YYYYQq", y |-> k.y, n |-> k.n, ey |-> 0, en |-> 0]
           [] k.freq = "Y" -> [text |-> "YYYY", y |-> k.y, n |-> k.n, ey |-> 0, en |-> 0]
           [] OTHER        -> [text |-> "YYYY-MM", y |-> k.y, n |-> k.n, ey |-> 0, en |-> 0]

\* the order groupby and merge sort period keys and labels in
KeyLess(a, b) == a.y < b.y \/ (a.y = b.y /\ a.n < b.n)

RECURSIVE SortKeys(_)
SortKeys(S) ==
    IF S = {} THEN <<>>
    ELSE LET lo == CHOOSE k \in S : \A o \in S \ {k} : KeyLess(k, o)
         IN  <<lo>> \o SortKeys(S \ {lo})

(***************************************************************************)
(* process_transactions, lines 26-94.                                      *)
(*                                                                         *)
(* A table is [planned_col, rows]: whether it has a 'Planned Date' column, *)
(* and its rows [inv, planned, status, gross, tax, net] (inv and planned   *)
(* are raw cells).  The keyword arguments are [vat_frequency, vat_basis,   *)
(* start_date, end_date]; a date argument is [given, ts].                  *)
(***************************************************************************)
\* a record with one more column
WithCol(r, col, v) == [c \in DOMAIN r \cup {col} |-> IF c = col THEN v ELSE r[c]]

Cell(t) == [kind |-> "ts", ts |-> t]

\* lines 28-31: df[col] = df[col].apply(convert_date), on the caller's table
ConvertRow(r, planned_col) ==
    [r EXCEPT !.inv = Cell(convert_date(r.inv)),
              !.planned = IF planned_col THEN Cell(convert_date(r.planned)) ELSE r.planned]

ConvertDates(t) ==
    [t EXCEPT !.rows = [i \in DOMAIN t.rows |-> ConvertRow(t.rows[i], t.planned_col)]]

\* the dropna of line 33 left out
DropInvalid_KeepAll(rows) == rows

\* line 33: df.dropna(subset=['Invoice Date'])
DropInvalid(rows) == SelectSeq(rows, LAMBDA r : notna(r.inv.ts))

\* line 34: df.empty
NoValidDates(rows) == rows = <<>>

\* lines 37-38
StartFilter(rows, start_date) ==
    IF start_date.given
    THEN SelectSeq(rows, LAMBDA r : TsLeq(start_date.ts, r.inv.ts))
    ELSE rows

\* lines 39-40
EndFilter(rows, end_date) ==
    IF end_date.given
    THEN SelectSeq(rows, LAMBDA r : TsLeq(r.inv.ts, end_date.ts))
    ELSE rows

\* line 54
Unpaid(status) == IF status \in {"Approved", "Awaiting Payment"} THEN "Yes" ELSE "No"

\* lines 43-54: the 'VAT Period' and 'Unpaid/Unreceived' columns ('Month Group'
\* and 'Year' of the 4M grouping are the n and y of the key)
Flagged(rows, vat_frequency) ==
    [i \in DOMAIN rows |->
        WithCol(WithCol(rows[i], "period", VatPeriod(rows[i].inv.ts, vat_frequency)),
                "unpaid", Unpaid(rows[i].status))]

\* line 59: datetime.now() - row['Invoice Date'] > timedelta(days=180)
OlderThan180(t, clock) == TsLess([t EXCEPT !.day = t.day + 180], clock)

BadDebtRisk(r, clock) ==
    IF r.unpaid = "Yes" /\ OlderThan180(r.inv.ts, clock) THEN "Yes" ELSE "No"

\* the Status filter of line 57 left out
PaidOnly_KeepAll(rows) == rows

\* line 57
PaidOnly(rows) == SelectSeq(rows, LAMBDA r : r.status = "Paid")

\* lines 56-59
BasisStep(rows, vat_basis, clock) ==
    IF vat_basis = "cash"
    THEN PaidOnly(rows)
    ELSE [i \in DOMAIN rows |-> WithCol(rows[i], "bad", BadDebtRisk(rows[i], clock))]

\* lines 61-74 and 76-87: one summary row of a group, sums rounded, key formatted
SummaryRow(k, rows, vat_basis) ==
    LET g    == SelectSeq(rows, LAMBDA r : r.period = k)
        base == [period |-> FormatPeriod(k),
                 gross  |-> round0(SumCol(g, "gross")),
                 tax    |-> round0(SumCol(g, "tax")),
                 net    |-> round0(SumCol(g, "net")),
                 unpaid |-> CountYes(g, "unpaid")]
    IN  IF vat_basis = "accrual" THEN WithCol(base, "bad", CountYes(g, "bad")) ELSE base

\* line 70: df.groupby('VAT Period').agg(agg_dict).reset_index()
Summarise(rows, vat_basis) ==
    LET keys == SortKeys({r.period : r \in Range(rows)})
    IN  [i \in DOMAIN keys |-> SummaryRow(keys[i], rows, vat_basis)]

\* df['Invoice Date'].max()
RECURSIVE MaxDate(_)
MaxDate(rows) ==
    IF Len(rows) = 1 THEN rows[1].inv.ts
    ELSE LET m == MaxDate(Tail(rows))
         IN  IF TsLess(m, rows[1].inv.ts) THEN rows[1].inv.ts ELSE m

\* lines 90-92.  pd.to_datetime(None) is None, and Timestamp < None raises
\* TypeError.  "error" / "warn" / "quiet"
PartialCheck(rows, summary, end_date) ==
    IF summary = <<>> THEN "quiet"
    ELSE IF ~end_date.given THEN "error"
    ELSE IF TsLess(MaxDate(rows), end_date.ts) THEN "warn" ELSE "quiet"

Raised(e) == [err |-> e, returned |-> FALSE, df |-> <<>>, summary |-> <<>>, warning |-> FALSE]

\* the outcome of process_transactions(t, **a) when datetime.now() reads clock
process_transactions(t, a, clock) ==
    LET valid == DropInvalid(ConvertDates(t).rows)
    IN  IF NoValidDates(valid) THEN Raised("ValueError")
        ELSE LET ranged  == EndFilter(StartFilter(valid, a.start_date), a.end_date)
                 kept    == BasisStep(Flagged(ranged, a.vat_frequency), a.vat_basis, clock)
                 summary == Summarise(kept, a.vat_basis)
                 check   == PartialCheck(kept, summary, a.end_date)
             IN  IF check = "error" THEN Raised("TypeError")
                 ELSE [err |-> "none", returned |-> TRUE, df |-> kept,
                       summary |-> summary, warning |-> (check = "warn")]

(***************************************************************************)
(* check_disclosures, lines 96-150.                                        *)
(*                                                                         *)
(* A summary is a sequence of rows [period, tax] (the other summary        *)
(* columns are dropped by the column selection of line 133).  The filed    *)
(* table is [given, rows] with rows [period, T1, T2]; given = FALSE is     *)
(* None.                                                                   *)
(***************************************************************************)
\* DataFrame.merge(..., on='VAT Period', how='left') followed by the rename
\* and the liability column: one row per match, or one row with a NaN filed
\* amount where nothing matches (lines 109-114, 122-127)
RECURSIVE LeftMerge(_, _, _)
LeftMerge(summary, filed, col) ==
    IF summary = <<>> THEN <<>>
    ELSE LET r       == Head(summary)
             matches == SelectSeq(filed, LAMBDA f : f.period = r.period)
             joined  == IF matches = <<>>
                        THEN <<[period |-> r.period, calc |-> r.tax, filed |-> NaN]>>
                        ELSE [i \in DOMAIN matches |->
                                [period |-> r.period, calc |-> r.tax,
                                 filed |-> matches[i][col]]]
         IN  joined \o LeftMerge(Tail(summary), filed, col)

\* the .round(0) of lines 114 and 127 left out
Liability_Unrounded(calc, filed) == Minus(calc, filed)

\* lines 114 and 127
Liability(calc, filed) == round0(Minus(calc, filed))

WithLiability(rows) ==
    [i \in DOMAIN rows |-> WithCol(rows[i], "liability", Liability(rows[i].calc, rows[i].filed))]

\* lines 107-117 and 120-130: one side of the reconciliation.  With an empty
\* summary the frame gets only the period and a zero liability column, so the
\* computed and filed columns that line 133/134 selects are missing.
Side(summary, filed, col) ==
    IF summary # <<>>
    THEN [complete |-> TRUE, rows |-> WithLiability(LeftMerge(summary, filed, col))]
    ELSE [complete |-> FALSE,
          rows |-> [i \in DOMAIN filed |->
                      [period |-> filed[i].period, liability |-> 0]]]

\* line 137
EstimatedLiability(output, input) == fillna0(output) + fillna0(input)

\* one row of the outer merge: p and s are rows of the two sides or the
\* all-NaN row of a side that has no such period
MergedRow(k, p, s) ==
    [period |-> k,
     calc_input  |-> p.calc, T2 |-> p.filed, input_liability  |-> p.liability,
     calc_output |-> s.calc, T1 |-> s.filed, output_liability |-> s.liability,
     estimated   |-> EstimatedLiability(s.liability, p.liability)]

Missing == <<[calc |-> NaN, filed |-> NaN, liability |-> NaN]>>

RECURSIVE Product(_, _, _)
Product(k, ps, ss) ==
    IF ps = <<>> THEN <<>>
    ELSE [i \in DOMAIN ss |-> MergedRow(k, Head(ps), ss[i])] \o Product(k, Tail(ps), ss)

\* lines 133-136: outer merge on the period, keys in sorted order
RECURSIVE OuterMerge(_, _, _)
OuterMerge(keys, prows, srows) ==
    IF keys = <<>> THEN <<>>
    ELSE LET k  == Head(keys)
             ps == SelectSeq(prows, LAMBDA r : r.period = k)
             ss == SelectSeq(srows, LAMBDA r : r.period = k)
         IN  Product(k, IF ps = <<>> THEN Missing ELSE ps,
                        IF ss = <<>> THEN Missing ELSE ss)
             \o OuterMerge(Tail(keys), prows, srows)

\* line 140
RECURSIVE TotalLiability(_)
TotalLiability(merged) ==
    IF merged = <<>> THEN 0 ELSE Head(merged).estimated + TotalLiability(Tail(merged))

\* the gate of line 139 taken on the total instead of on the rows
AnyDiscrepancy_OnTotal(merged) == TotalLiability(merged) # 0

\* line 139
AnyDiscrepancy(merged) == \E i \in DOMAIN merged : merged[i].estimated # 0

Nothing == [err |-> "none", merged |-> [given |-> FALSE, rows |-> <<>>],
            disclosure |-> FALSE, total_liability |-> 0]

check_disclosures(summary_purchases, summary_sales, filed_vat_df) ==
    IF ~filed_vat_df.given THEN Nothing
    ELSE IF summary_purchases = <<>> /\ summary_sales = <<>> THEN Nothing
    ELSE LET p == Side(summary_purchases, filed_vat_df.rows, "T2")
             s == Side(summary_sales, filed_vat_df.rows, "T1")
         IN  IF ~p.complete \/ ~s.complete
             THEN [Nothing EXCEPT !.err = "KeyError"]
             ELSE LET keys   == SortKeys({r.period : r \in Range(p.rows) \cup Range(s.rows)})
                      merged == OuterMerge(keys, p.rows, s.rows)
                  IN  [err |-> "none",
                       merged |-> [given |-> TRUE, rows |-> merged],
                       disclosure |-> AnyDiscrepancy(merged),
                       total_liability |-> IF AnyDiscrepancy(merged)
                                           THEN TotalLiability(merged) ELSE 0]

(***************************************************************************)
(* Bounds and input domains.                                               *)
(***************************************************************************)
MaxRows == 2            \* rows of a transaction table

MaxTicks == 1           \* days the wall clock may advance between two runs

MaxPeriods == 2         \* periods a summary or the filed table may hold

Unused == "-"

Text(y, m, d) == [kind |-> "datetext", y |-> y, m |-> m, d |-> d]

NumText(n) == [kind |-> "numtext", n |-> n]

NumCell(n) == [kind |-> "num", n |-> n]

Junk == [kind |-> "junk"]

Blank == [kind |-> "nan"]

Day(y, m, d) == Timestamp(DaysFromCivil(y, m, d), 0, 0)

\* the numbers the thresholds of convert_date tell apart
Numbers ==
    {Num(FALSE, 0, 0), Num(TRUE, 0, 1), Num(TRUE, 0, 45000), Num(FALSE, 0, 1),
     Num(FALSE, 0, 60), Num(FALSE, 0, 45000), Num(FALSE, 0, 50000),
     Num(FALSE, 0, 99999), Num(FALSE, 0, 100000), Num(FALSE, 0, 5000000),
     Num(FALSE, 1, 0), Num(FALSE, 1, 1), Num(FALSE, 1, 700000000),
     Num(FALSE, 9, 223372036), Num(FALSE, 9, 223372037),
     Num(FALSE, 999999, 999999999), Num(FALSE, 1000000, 0), Num(FALSE, 1000000, 1),
     Num(FALSE, 1700000000, 5), Num(TRUE, 1000000, 1)}

Dates ==
    {[y |-> y, m |-> m, d |-> d] : y \in {1900, 1970, 2023, 2024}, m \in {1, 2, 12}, d \in {1, 28}}

RawValues ==
    {NumCell(n) : n \in Numbers} \cup {NumText(n) : n \in Numbers}
    \cup {Text(c.y, c.m, c.d) : c \in Dates}
    \cup {Cell(Day(c.y, c.m, c.d)) : c \in Dates}
    \cup {Junk, Blank, Cell(NaT)}

(***************************************************************************)
(* SpecDate: convert_date applied to one raw cell.                         *)
(***************************************************************************)
InitDate ==
    /\ pc = "start"
    /\ value \in RawValues
    /\ date = NaT
    /\ df0 = Unused /\ df = Unused /\ args = Unused /\ now = Unused
    /\ ret = Unused /\ ret_prev = Unused
    /\ recon_in = Unused /\ recon_out = Unused /\ ui = Unused

ConvertDate ==
    /\ pc = "start"
    /\ date' = convert_date(value)
    /\ pc' = "done"
    /\ UNCHANGED <<value, df0, df, args, now, ret, ret_prev, recon_in, recon_out, ui>>

NextDate == ConvertDate

SpecDate == InitDate /\ [][NextDate]_vars

\* the classification of a number that section 4.1 of the specification gives
Classified(n) ==
    IF NumGt(n, 0, 0) /\ NumLt(n, 0, 100000)
    THEN Timestamp(DaysFromCivil(1899, 12, 30) + n.lo, 0, 0)
    ELSE IF NumGt(n, 1, 0) /\ NumLt(n, 1000000, 0)
    THEN IF EpochSecondsInBounds(n) THEN FromEpochSeconds(n) ELSE NaT
    ELSE IF NumGt(n, 1000000, 0)
    THEN FromEpochNs(n)
    ELSE NaT

\* C9 as stated: a raw value that is not date text is invalid when it is not
\* a number, and otherwise is read by its magnitude: 0 < n < 100000 as a day
\* serial after 1899-12-30, 1e9 < n < 1e15 as epoch seconds, n > 1e15 as epoch
\* nanoseconds, anything else as invalid.
C9_NumericClassification ==
    (pc = "done" /\ value.kind \in {"num", "numtext", "junk", "nan"}) =>
        date = (IF value.kind \in {"num", "numtext"} THEN Classified(value.n) ELSE NaT)

(***************************************************************************)
(* SpecProc: process_transactions called on a table, and called again on   *)
(* the same table with the same arguments after the clock may have moved.  *)
(***************************************************************************)
Row(inv, planned, status, gross, tax, net) ==
    [inv |-> inv, planned |-> planned, status |-> status,
     gross |-> gross, tax |-> tax, net |-> net]

RowTemplates ==
    {Row(Text(2023, 2, 10), Text(2023, 3, 10), "Approved", 60050, 10050, 50000),
     Row(Text(2023, 2, 20), Junk, "Paid", 30050, 5050, 25000),
     Row(Cell(Day(2023, 6, 1)), Blank, "Awaiting Payment", 120000, 20000, 100000),
     Row(NumText(Num(FALSE, 0, 45000)), NumText(Num(FALSE, 0, 45030)), "Paid", NaN, NaN, 40000),
     Row(NumCell(Num(FALSE, 0, 45000)), Blank, "Draft", 0 - 18050, 0 - 3050, 0 - 15000),
     Row(Junk, Text(2023, 6, 1), "Paid", 42000, 7000, 35000)}

RECURSIVE SeqsUpTo(_, _)
SeqsUpTo(S, n) ==
    IF n = 0 THEN {<<>>}
    ELSE LET shorter == SeqsUpTo(S, n - 1)
         IN  shorter \cup {Append(q, x) : q \in {r \in shorter : Len(r) = n - 1}, x \in S}

\* a table without the 'Planned Date' column has no such cells
Table(planned_col, rows) ==
    [planned_col |-> planned_col,
     rows |-> [i \in DOMAIN rows |->
                 IF planned_col THEN rows[i] ELSE [rows[i] EXCEPT !.planned = Blank]]]

Tables == {Table(c, rows) : c \in BOOLEAN, rows \in SeqsUpTo(RowTemplates, MaxRows)}

Given(t) == [given |-> TRUE, ts |-> t]

Absent == [given |-> FALSE, ts |-> NaT]

Arguments ==
    [vat_frequency : {"M", "2M", "Q", "4M", "6M", "Y"},
     vat_basis     : {"accrual", "cash"},
     start_date    : {Absent, Given(Day(2023, 2, 15))},
     end_date      : {Absent, Given(Day(2023, 6, 1)), Given(Day(2023, 12, 31))}]

\* datetime.now() at the first run: 179 days and 12 hours after 2023-02-10
Clocks == {Timestamp(DaysFromCivil(2023, 2, 10) + 179, 43200, 0)}

InitProc ==
    /\ pc = "start"
    /\ df0 \in Tables
    /\ df = df0
    /\ args \in Arguments
    /\ now \in [clock : Clocks, ticks : {0}]
    /\ ret = Unused /\ ret_prev = Unused
    /\ value = Unused /\ date = Unused
    /\ recon_in = Unused /\ recon_out = Unused /\ ui = Unused

\* the first call
Call ==
    /\ pc = "start"
    /\ ret' = process_transactions(df, args, now.clock)
    /\ df' = ConvertDates(df)
    /\ ret_prev' = ret
    /\ pc' = "ran"
    /\ UNCHANGED <<value, date, df0, args, now, recon_in, recon_out, ui>>

\* a day passes
Tick ==
    /\ pc = "ran"
    /\ now.ticks < MaxTicks
    /\ now' = [clock |-> [now.clock EXCEPT !.day = @ + 1], ticks |-> now.ticks + 1]
    /\ UNCHANGED <<pc, value, date, df0, df, args, ret, ret_prev, recon_in, recon_out, ui>>

\* the second call, same table object, same arguments
CallAgain ==
    /\ pc = "ran"
    /\ ret' = process_transactions(df, args, now.clock)
    /\ df' = ConvertDates(df)
    /\ ret_prev' = ret
    /\ pc' = "reran"
    /\ UNCHANGED <<value, date, df0, args, now, recon_in, recon_out, ui>>

NextProc == Call \/ Tick \/ CallAgain

SpecProc == InitProc /\ [][NextProc]_vars

(***************************************************************************)
(* Properties of process_transactions, stated against the table as it was  *)
(* handed in (df0).                                                        *)
(***************************************************************************)
Called == pc \in {"ran", "reran"}

\* the Invoice Date of row i of the input, normalised
InvoiceDate(i) == convert_date(df0.rows[i].inv)

\* the rows of the input with a resolvable Invoice Date
Resolvable == {i \in DOMAIN df0.rows : notna(InvoiceDate(i))}

\* start <= InvoiceDate <= end, an absent bound imposing nothing
InDateRange(i) ==
    /\ args.start_date.given => TsLeq(args.start_date.ts, InvoiceDate(i))
    /\ args.end_date.given => TsLeq(InvoiceDate(i), args.end_date.ts)

LabelOf(i) == FormatPeriod(VatPeriod(InvoiceDate(i), args.vat_frequency))

\* the transactions a period summary is to be built from
Retained == {i \in Resolvable : InDateRange(i)
                                /\ (args.vat_basis = "cash" => df0.rows[i].status = "Paid")}

GroupOf(label) == {i \in Retained : LabelOf(i) = label}

RECURSIVE SumOver(_, _)
SumOver(I, col) ==
    IF I = {} THEN 0
    ELSE LET i == CHOOSE x \in I : TRUE
         IN  fillna0(df0.rows[i][col]) + SumOver(I \ {i}, col)

\* the summary holds one row per period that has a retained transaction, and
\* that row's sums are the rounded sums over the period's retained transactions
SummaryBuiltFromRetained ==
    /\ \A i \in Retained : \E k \in DOMAIN ret.summary : ret.summary[k].period = LabelOf(i)
    /\ \A k \in DOMAIN ret.summary :
          LET row == ret.summary[k]
              g   == GroupOf(row.period)
          IN  /\ g # {}
              /\ row.gross = round0(SumOver(g, "gross"))
              /\ row.tax = round0(SumOver(g, "tax"))
              /\ row.net = round0(SumOver(g, "net"))
              /\ \A j \in DOMAIN ret.summary : j # k => ret.summary[j].period # row.period

\* C5: process_transactions raises the no-valid-dates error exactly when no
\* row of the input has a resolvable Invoice Date, and then returns neither a
\* cleaned table nor a summary.
C5_NoValidDatesExactly ==
    Called =>
        /\ (ret.err = "ValueError") <=> (Resolvable = {})
        /\ ret.err = "ValueError" => ~ret.returned /\ ret.df = <<>> /\ ret.summary = <<>>

\* a table with rows, none of them resolvable, was processed and raised
C5_Witness ==
    /\ pc = "ran"
    /\ Len(df0.rows) = MaxRows
    /\ Resolvable = {}
    /\ ret.err = "ValueError"

\* C7: under cash basis the summary aggregates exactly the Paid transactions
\* of each period within the date range, a period without a Paid transaction
\* has no row, and the summary has no Bad Debt Risk column.
C7_CashSummaryIsPaidOnly ==
    (Called /\ args.vat_basis = "cash" /\ ret.returned) =>
        /\ SummaryBuiltFromRetained
        /\ \A k \in DOMAIN ret.summary : "bad" \notin DOMAIN ret.summary[k]

\* cash basis, a period holding a Paid and an unpaid transaction in range,
\* and another resolvable in-range transaction whose period has no Paid one
C7_Witness ==
    /\ pc = "ran" /\ args.vat_basis = "cash" /\ ret.returned
    /\ ret.summary # <<>>
    /\ \E i, j \in Resolvable :
          /\ InDateRange(i) /\ InDateRange(j)
          /\ df0.rows[i].status = "Paid" /\ df0.rows[j].status # "Paid"
          /\ LabelOf(i) = LabelOf(j)

\* C8 as stated: a second run on the same table with the same arguments gives
\* the same period summary as the first.
C8_SecondRunSameSummary ==
    pc = "reran" => ret.summary = ret_prev.summary

\* C10 as stated: with at least one resolvable Invoice Date the call completes
\* for every combination of given and absent bounds, and the summary is built
\* from exactly the transactions with start <= InvoiceDate <= end.
C10_CompletesForAnyBounds ==
    (Called /\ Resolvable # {}) => (ret.returned /\ SummaryBuiltFromRetained)

(***************************************************************************)
(* SpecRecon: check_disclosures called on two period summaries and a       *)
(* filed-returns table.                                                    *)
(***************************************************************************)
\* the label of the i-th quarter of 2023, as process_transactions writes it
Quarter(i) == FormatPeriod([freq |-> "Q", y |-> 2023 + (i - 1) \div 4, n |-> ((i - 1) % 4) + 1])

\* rounded period tax of a summary, in cents
TaxValues == {10000, 20000}

\* filed (T1, T2) amounts of a period, in cents
FiledAmounts ==
    {[T1 |-> 10000, T2 |-> 10000], [T1 |-> 20000, T2 |-> 20000], [T1 |-> 10050, T2 |-> 20150]}

\* the rows f gives to the periods of I, in period order
RECURSIVE RowsOf(_, _, _)
RowsOf(f, I, i) ==
    IF i > MaxPeriods THEN <<>>
    ELSE (IF i \in I THEN <<f[i]>> ELSE <<>>) \o RowsOf(f, I, i + 1)

Summaries ==
    UNION {{RowsOf([i \in I |-> [period |-> Quarter(i), tax |-> t[i]]], I, 1) :
              t \in [I -> TaxValues]} : I \in SUBSET (1 .. MaxPeriods)}

FiledTables ==
    UNION {{RowsOf([i \in I |-> [period |-> Quarter(i), T1 |-> a[i].T1, T2 |-> a[i].T2]], I, 1) :
              a \in [I -> FiledAmounts]} : I \in SUBSET (1 .. MaxPeriods)}

InitRecon ==
    /\ pc = "start"
    /\ recon_in \in [summary_purchases : Summaries,
                     summary_sales     : Summaries,
                     filed_vat_df      : {[given |-> FALSE, rows |-> <<>>]}
                                         \cup {[given |-> TRUE, rows |-> f] : f \in FiledTables}]
    /\ recon_out = Unused
    /\ now = Unused
    /\ value = Unused /\ date = Unused
    /\ df0 = Unused /\ df = Unused /\ args = Unused /\ ret = Unused /\ ret_prev = Unused
    /\ ui = Unused

Reconcile ==
    /\ pc = "start"
    /\ recon_out' = check_disclosures(recon_in.summary_purchases, recon_in.summary_sales,
                                      recon_in.filed_vat_df)
    /\ pc' = "done"
    /\ UNCHANGED <<value, date, df0, df, args, now, ret, ret_prev, recon_in, ui>>

NextRecon == Reconcile

SpecRecon == InitRecon /\ [][NextRecon]_vars

(***************************************************************************)
(* Properties of check_disclosures.                                        *)
(***************************************************************************)
Merged == recon_out.merged.rows

PeriodsOf(rows) == {rows[i].period : i \in DOMAIN rows}

PurchasePeriods == PeriodsOf(recon_in.summary_purchases)

SalesPeriods == PeriodsOf(recon_in.summary_sales)

FiledPeriods == PeriodsOf(recon_in.filed_vat_df.rows)

\* the tax a summary computed for a period
TaxIn(summary, p) == (CHOOSE r \in Range(summary) : r.period = p).tax

\* the filed row of a period
FiledRow(p) == CHOOSE f \in Range(recon_in.filed_vat_df.rows) : f.period = p

RECURSIVE SumEstimated(_)
SumEstimated(rows) ==
    IF rows = <<>> THEN 0 ELSE Head(rows).estimated + SumEstimated(Tail(rows))

C2_UnfiledPeriodFullLiability ==
    (pc = "done" /\ recon_out.merged.given) =>
        /\ \A p \in PurchasePeriods \ FiledPeriods :
              \E i \in DOMAIN Merged :
                 /\ Merged[i].period = p
                 /\ Merged[i].input_liability = round0(TaxIn(recon_in.summary_purchases, p))
                 /\ Merged[i].estimated =
                       Merged[i].input_liability + fillna0(Merged[i].output_liability)
        /\ \A p \in SalesPeriods \ FiledPeriods :
              \E i \in DOMAIN Merged :
                 /\ Merged[i].period = p
                 /\ Merged[i].output_liability = round0(TaxIn(recon_in.summary_sales, p))
                 /\ Merged[i].estimated =
                       Merged[i].output_liability + fillna0(Merged[i].input_liability)

\* C3 as stated: with a filed table and at least one non-empty summary the
\* call returns a table with exactly one row per period of the union of the
\* two summaries, and a side missing from a period counts as 0.
C3_OneRowPerUnionPeriod ==
    (/\ pc = "done"
     /\ recon_in.filed_vat_df.given
     /\ (recon_in.summary_purchases # <<>> \/ recon_in.summary_sales # <<>>)) =>
        /\ recon_out.err = "none"
        /\ recon_out.merged.given
        /\ PeriodsOf(Merged) = PurchasePeriods \cup SalesPeriods
        /\ \A i, j \in DOMAIN Merged : Merged[i].period = Merged[j].period => i = j
        /\ \A i \in DOMAIN Merged :
              /\ Merged[i].period \notin PurchasePeriods =>
                    Merged[i].estimated = fillna0(Merged[i].output_liability)
              /\ Merged[i].period \notin SalesPeriods =>
                    Merged[i].estimated = fillna0(Merged[i].input_liability)

\* C4: for a period in both summaries that has a filed row, Input Liability is
\* round(computed input tax - filed T2), Output Liability is round(computed
\* output tax - filed T1), and Estimated Liability is the sum of the two
\* rounded liabilities.
C4_LiabilityArithmetic ==
    (pc = "done" /\ recon_out.merged.given) =>
        \A p \in (PurchasePeriods \cap SalesPeriods) \cap FiledPeriods :
            \E i \in DOMAIN Merged :
               /\ Merged[i].period = p
               /\ Merged[i].input_liability =
                     round0(TaxIn(recon_in.summary_purchases, p) - FiledRow(p).T2)
               /\ Merged[i].output_liability =
                     round0(TaxIn(recon_in.summary_sales, p) - FiledRow(p).T1)
               /\ Merged[i].estimated =
                     Merged[i].input_liability + Merged[i].output_liability

\* a period in both summaries with a filed row whose differences are not
\* whole euros, so that the rounding of each side shows
C4_Witness ==
    /\ pc = "done" /\ recon_out.merged.given
    /\ \E p \in (PurchasePeriods \cap SalesPeriods) \cap FiledPeriods :
          /\ (TaxIn(recon_in.summary_purchases, p) - FiledRow(p).T2) % 100 # 0
          /\ (TaxIn(recon_in.summary_sales, p) - FiledRow(p).T1) % 100 # 0
          /\ \E i \in DOMAIN Merged : Merged[i].period = p /\ Merged[i].estimated # 0

(***************************************************************************)
(* The "Process and Generate Exports" handler, lines 169-226.              *)
(*                                                                         *)
(* An uploaded sheet is [given, planned_col, rows]; a sheet row is a table *)
(* row with a 'Contact' text cell and raw amount cells [kind, v].  ui      *)
(* holds the widgets, the script's names (bound or not) and what has been  *)
(* rendered on the page (shown).                                           *)
(***************************************************************************)
Amount(v) == [kind |-> "num", v |-> v]

NoAmount == [kind |-> "nan", v |-> 0]

\* line 177: df.dropna(how='all')
IsBlankRow(r) ==
    /\ r.contact = "nan" /\ r.status = "nan"
    /\ r.inv.kind = "nan" /\ r.planned.kind = "nan"
    /\ r.gross.kind = "nan" /\ r.tax.kind = "nan" /\ r.net.kind = "nan"

\* line 178: a row with 'Total' in one of its cells
IsTotalRow(r) == r.contact = "Total"

\* lines 179-182: pd.to_numeric(df[col], errors='coerce')
ToNumeric(c) == IF c.kind = "num" THEN c.v ELSE NaN

\* lines 176-182 (and 189-195): the table handed to process_transactions
ReadSheet(sheet) ==
    LET rows == SelectSeq(sheet.rows, LAMBDA r : ~IsBlankRow(r) /\ ~IsTotalRow(r))
    IN  [planned_col |-> sheet.planned_col,
         rows |-> [i \in DOMAIN rows |->
                     [rows[i] EXCEPT !.gross = ToNumeric(@), !.tax = ToNumeric(@),
                                     !.net = ToNumeric(@)]]]

Unbound == [bound |-> FALSE, rows |-> <<>>]

Bound(rows) == [bound |-> TRUE, rows |-> rows]

\* lines 169-174
Click ==
    /\ pc = "idle"
    /\ IF ~ui.uploaded_purchases.given /\ ~ui.uploaded_sales.given
       THEN /\ ui' = [ui EXCEPT !.error = TRUE]
            /\ pc' = "done"
       ELSE /\ ui' = ui
            /\ pc' = "purchases"
    /\ UNCHANGED <<value, date, df0, df, args, now, ret, ret_prev, recon_in, recon_out>>

\* lines 175-187
ProcessPurchases ==
    /\ pc = "purchases"
    /\ IF ~ui.uploaded_purchases.given
       THEN ui' = ui /\ pc' = "sales"
       ELSE LET r == process_transactions(ReadSheet(ui.uploaded_purchases), ui.widgets, now.clock)
            IN  IF r.err # "none"
                THEN /\ ui' = [ui EXCEPT !.exception = r.err]
                     /\ pc' = "aborted"
                ELSE /\ ui' = [ui EXCEPT !.purchases_df = Bound(r.df),
                                         !.purchases_summary = Bound(r.summary),
                                         !.warned = @ \/ r.warning,
                                         !.shown = @ \cup {"purchases_df", "purchases_summary"}]
                     /\ pc' = "sales"
    /\ UNCHANGED <<value, date, df0, df, args, now, ret, ret_prev, recon_in, recon_out>>

\* lines 188-200
ProcessSales ==
    /\ pc = "sales"
    /\ IF ~ui.uploaded_sales.given
       THEN ui' = ui /\ pc' = "reconcile"
       ELSE LET r == process_transactions(ReadSheet(ui.uploaded_sales), ui.widgets, now.clock)
            IN  IF r.err # "none"
                THEN /\ ui' = [ui EXCEPT !.exception = r.err]
                     /\ pc' = "aborted"
                ELSE /\ ui' = [ui EXCEPT !.sales_df = Bound(r.df),
                                         !.sales_summary = Bound(r.summary),
                                         !.warned = @ \/ r.warning,
                                         !.shown = @ \cup {"sales_df", "sales_summary"}]
                     /\ pc' = "reconcile"
    /\ UNCHANGED <<value, date, df0, df, args, now, ret, ret_prev, recon_in, recon_out>>

\* lines 202-209
ReconcileStep ==
    /\ pc = "reconcile"
    /\ LET r == check_disclosures(
                  IF ui.uploaded_purchases.given THEN ui.purchases_summary.rows ELSE <<>>,
                  IF ui.uploaded_sales.given THEN ui.sales_summary.rows ELSE <<>>,
                  ui.uploaded_filed)
       IN  IF r.err # "none"
           THEN /\ ui' = [ui EXCEPT !.exception = r.err]
                /\ pc' = "aborted"
           ELSE /\ ui' = [ui EXCEPT !.merged = r.merged,
                                    !.disclosure = r.disclosure,
                                    !.warned = @ \/ r.disclosure,
                                    !.shown = @ \cup (IF r.merged.given THEN {"merged"} ELSE {})
                                                \cup (IF r.disclosure THEN {"disclosure"} ELSE {})]
                /\ pc' = "export"
    /\ UNCHANGED <<value, date, df0, df, args, now, ret, ret_prev, recon_in, recon_out>>

\* lines 211-226: purchases_summary and sales_summary are names bound only in
\* the branch of their upload; reading an unbound one raises NameError
Export ==
    /\ pc = "export"
    /\ IF ~ui.purchases_summary.bound \/ ~ui.sales_summary.bound
       THEN /\ ui' = [ui EXCEPT !.exception = "NameError"]
            /\ pc' = "aborted"
       ELSE /\ ui' = [ui EXCEPT !.shown = @ \cup {"download"}]
            /\ pc' = "done"
    /\ UNCHANGED <<value, date, df0, df, args, now, ret, ret_prev, recon_in, recon_out>>

NextRun == Click \/ ProcessPurchases \/ ProcessSales \/ ReconcileStep \/ Export

(***************************************************************************)
(* SpecRun: one run of the handler on uploaded sheets.                     *)
(***************************************************************************)
SheetRow(contact, inv, status, gross, tax, net) ==
    [contact |-> contact, inv |-> inv, planned |-> Blank, status |-> status,
     gross |-> gross, tax |-> tax, net |-> net]

BlankRow == SheetRow("nan", Blank, "nan", NoAmount, NoAmount, NoAmount)

TotalRow == SheetRow("Total", Blank, "nan", Amount(180050), Amount(30050), Amount(150000))

Invoice1 == SheetRow("Acme", Cell(Day(2023, 2, 10)), "Paid", Amount(60050), Amount(10050), Amount(50000))

Invoice2 == SheetRow("Bolt", Text(2023, 6, 1), "Approved", Amount(120000), Amount(20000), Amount(100000))

Undated == SheetRow("Cask", Junk, "Paid", Amount(42000), [kind |-> "text", v |-> 0], Amount(35000))

NoUpload == [given |-> FALSE, planned_col |-> FALSE, rows |-> <<>>]

Sheet(rows) == [given |-> TRUE, planned_col |-> FALSE, rows |-> rows]

Uploads ==
    {NoUpload,
     Sheet(<<Invoice1, Invoice2, BlankRow, TotalRow>>),
     Sheet(<<Invoice1, Undated, TotalRow>>),
     Sheet(<<Undated, BlankRow, TotalRow>>)}

FiledUploads ==
    {[given |-> FALSE, rows |-> <<>>],
     [given |-> TRUE,
      rows |-> <<[period |-> FormatPeriod([freq |-> "4M", y |-> 2023, n |-> 1]),
                  T1 |-> 10000, T2 |-> 10000]>>],
     [given |-> TRUE,
      rows |-> <<[period |-> FormatPeriod([freq |-> "Q", y |-> 2023, n |-> 1]),
                  T1 |-> 10000, T2 |-> 10000],
                 [period |-> FormatPeriod([freq |-> "Q", y |-> 2023, n |-> 2]),
                  T1 |-> 20000, T2 |-> 20000]>>]}

\* the date, frequency and basis widgets, lines 156-163
Widgets ==
    [vat_frequency : {"4M", "Q"},
     vat_basis     : {"accrual", "cash"},
     start_date    : {Given(Day(2023, 1, 1)), Given(Day(2023, 3, 1))},
     end_date      : {Given(Day(2025, 8, 31)), Given(Day(2023, 3, 31))}]

InitRun ==
    /\ pc = "idle"
    /\ now = [clock |-> Timestamp(DaysFromCivil(2025, 9, 1), 43200, 0), ticks |-> 0]
    /\ ui \in [uploaded_purchases : Uploads,
               uploaded_sales     : Uploads,
               uploaded_filed     : FiledUploads,
               widgets            : Widgets,
               purchases_df       : {Unbound},
               purchases_summary  : {Unbound},
               sales_df           : {Unbound},
               sales_summary      : {Unbound},
               merged             : {[given |-> FALSE, rows |-> <<>>]},
               disclosure         : {FALSE},
               shown              : {{}},
               warned             : {FALSE},
               error              : {FALSE},
               exception          : {"none"}]
    /\ value = Unused /\ date = Unused
    /\ df0 = Unused /\ df = Unused /\ args = Unused /\ ret = Unused /\ ret_prev = Unused
    /\ recon_in = Unused /\ recon_out = Unused

SpecRun == InitRun /\ [][NextRun]_vars

\* C6 as stated: a run is all-or-nothing; when a step of the run aborts with
\* an error, no output table of that run has been delivered.
C6_AllOrNothing ==
    pc = "aborted" => ui.shown = {}

====
